---- MODULE Spec2Model ----
(***************************************************************************)
(* Referential-integrity engine of system-tools-contracts                  *)
(* (src/schemas/mod.js, "Cross-Schema Reference Validator"):               *)
(*   EntityRegistry               four maps and their operations           *)
(*   validateEnvelopeInternalRefs finding -> artifact check of one envelope*)
(*   validateCrossReferences      batch validation (register, then check)  *)
(*   validateDocumentRefs         single document against a registry       *)
(*                                                                         *)
(* A JavaScript object is a TLA+ record whose DOMAIN is the set of         *)
(* properties it has; an absent property reads as Undefined.  A template   *)
(* string is the sequence of its parts.                                    *)
(***************************************************************************)
EXTENDS Naturals, Sequences, FiniteSets, TLC

VARIABLES
    envelopes,   \* EntityRegistry.envelopes : id -> EnvelopeRef
    plans,       \* EntityRegistry.plans     : id -> PlanRef
    receipts,    \* EntityRegistry.receipts  : id -> ReceiptRef
    artifacts,   \* EntityRegistry.artifacts : id -> ArtifactRef
    documents,   \* the document set the session validates
    lastOp,      \* the call made last, with its arguments
    result,      \* <<CrossValidationResult>> the last call returned, <<>> for none
    registered,  \* ids registered per kind since the registry was last empty
    firstFresh   \* <<result>> of the first batch run started on a fresh registry

vars == <<envelopes, plans, receipts, artifacts, documents, lastOp, result,
          registered, firstFresh>>

----------------------------------------------------------------------------
(* JavaScript values *)

\* the value read from an absent property
Undefined == "undefined"

\* a test that takes an absent property for a declared reference
TruthyNotEmpty(v) == v # ""

\* truthiness of a string | undefined value: "" and undefined are falsy
Truthy(v) == v # Undefined /\ v # ""

\* obj.field for a string-valued property
StrField(obj, f) == IF f \in DOMAIN obj THEN obj[f] ELSE Undefined

\* (obj.field as Array) || []
ArrayField(obj, f) == IF f \in DOMAIN obj THEN obj[f] ELSE <<>>

\* obj.provenance?.parent_envelope_id
ParentId(envelope) ==
    IF "provenance" \in DOMAIN envelope
    THEN StrField(envelope.provenance, "parent_envelope_id")
    ELSE Undefined

Range(s) == {s[i] : i \in DOMAIN s}

\* Map.prototype.set
MapSet(m, k, v) == [x \in (DOMAIN m) \cup {k} |-> IF x = k THEN v ELSE m[x]]

\* new Map()
EmptyMap == [x \in {} |-> x]

\* errors.push(...list) for each list of a sequence of lists, in order
RECURSIVE Flatten(_)
Flatten(ss) ==
    IF ss = <<>> THEN <<>> ELSE Head(ss) \o Flatten(Tail(ss))

----------------------------------------------------------------------------
(* EntityRegistry *)

\* a registry value: the four private maps
NewRegistry ==
    [envelopes |-> EmptyMap, plans |-> EmptyMap,
     receipts |-> EmptyMap, artifacts |-> EmptyMap]

\* the registry the state holds
Registry ==
    [envelopes |-> envelopes, plans |-> plans,
     receipts |-> receipts, artifacts |-> artifacts]

\* the loop with key and owner swapped: artifacts.set(id, {envelope_id: artifact})
RegisterArtifactsSwapped(arts, id, ids) ==
    IF ids = <<>> THEN arts
    ELSE MapSet(arts, id, [envelope_id |-> ids[Len(ids)]])

\* the loop of registerEnvelope over envelope.artifact_ids
RECURSIVE RegisterArtifacts(_, _, _)
RegisterArtifacts(arts, id, ids) ==
    IF ids = <<>> THEN arts
    ELSE RegisterArtifacts(MapSet(arts, Head(ids), [envelope_id |-> id]),
                           id, Tail(ids))

\* registerEnvelope that also makes the parent it names known
registerEnvelopeAndParent(reg, id, envelope) ==
    LET parent == envelope.parent_envelope_id
        known  == MapSet(reg.envelopes, id, envelope)
    IN  [reg EXCEPT
            !.envelopes =
                IF Truthy(parent) /\ parent \notin DOMAIN known
                THEN MapSet(known, parent,
                            [artifact_ids |-> <<>>, parent_envelope_id |-> Undefined])
                ELSE known,
            !.artifacts = RegisterArtifacts(@, id, envelope.artifact_ids)]

registerEnvelope(reg, id, envelope) ==
    [reg EXCEPT !.envelopes = MapSet(@, id, envelope),
                !.artifacts = RegisterArtifacts(@, id, envelope.artifact_ids)]

registerPlan(reg, id, plan) == [reg EXCEPT !.plans = MapSet(@, id, plan)]

registerReceipt(reg, id, receipt) ==
    [reg EXCEPT !.receipts = MapSet(@, id, receipt)]

hasEnvelope(reg, id) == id \in DOMAIN reg.envelopes

hasPlan(reg, id) == id \in DOMAIN reg.plans

hasReceipt(reg, id) == id \in DOMAIN reg.receipts

hasArtifact(reg, id) == id \in DOMAIN reg.artifacts

\* the stored projection in a one-element sequence, <<>> for undefined
getEnvelope(reg, id) ==
    IF id \in DOMAIN reg.envelopes THEN <<reg.envelopes[id]>> ELSE <<>>

\* clear without artifacts.clear()
clearKeepsArtifacts(reg) ==
    [envelopes |-> EmptyMap, plans |-> EmptyMap,
     receipts |-> EmptyMap, artifacts |-> reg.artifacts]

\* clear without plans.clear()
clearKeepsPlans(reg) ==
    [envelopes |-> EmptyMap, plans |-> reg.plans,
     receipts |-> EmptyMap, artifacts |-> EmptyMap]

clear(reg) ==
    [envelopes |-> EmptyMap, plans |-> EmptyMap,
     receipts |-> EmptyMap, artifacts |-> EmptyMap]

----------------------------------------------------------------------------
(* results *)

CrossReferenceError(type, ss, sid, ts, tid, field, message) ==
    [type |-> type, source_schema |-> ss, source_id |-> sid,
     target_schema |-> ts, target_id |-> tid, field |-> field,
     message |-> message]

CrossReferenceWarning(type, message) == [type |-> type, message |-> message]

\* { valid: errors.length === 0, errors, warnings }
CrossValidationResult(errors, warnings) ==
    [valid |-> (Len(errors) = 0), errors |-> errors, warnings |-> warnings]

----------------------------------------------------------------------------
(* validateEnvelopeInternalRefs *)

\* new Set(artifacts.map(a => a.artifact_id).filter(Boolean))
ArtifactIdSet(envelope) ==
    {x \in {StrField(a, "artifact_id") : a \in Range(ArrayField(envelope, "artifacts"))} :
        Truthy(x)}

\* the error pushed for one dangling evidence reference
DanglingRefError(envelopeId, findingId, ref) ==
    CrossReferenceError("missing_reference", "evidence-envelope", envelopeId,
        "artifact", ref,
        <<"findings[", findingId, "].evidence_refs">>,
        <<"Finding \"", findingId, "\" references non-existent artifact \"",
          ref, "\"">>)

\* FindingErrors with the inner loop left at its first dangling reference
FindingErrorsFirstOnly(envelope, finding) ==
    LET envelopeId == StrField(envelope, "envelope_id")
        findingId  == StrField(finding, "finding_id")
        refs       == ArrayField(finding, "evidence_refs")
        dangling   == SelectSeq(refs, LAMBDA r : r \notin ArtifactIdSet(envelope))
    IN  IF dangling = <<>> THEN <<>>
        ELSE <<DanglingRefError(envelopeId, findingId, dangling[1])>>

\* the inner loop: the errors of one finding, in the order of its evidence_refs
FindingErrors(envelope, finding) ==
    LET envelopeId == StrField(envelope, "envelope_id")
        findingId  == StrField(finding, "finding_id")
        refs       == ArrayField(finding, "evidence_refs")
        dangling   == SelectSeq(refs, LAMBDA r : r \notin ArtifactIdSet(envelope))
    IN  [i \in DOMAIN dangling |->
            DanglingRefError(envelopeId, findingId, dangling[i])]

InternalErrors(envelope) ==
    LET findings == ArrayField(envelope, "findings")
    IN  Flatten([i \in DOMAIN findings |-> FindingErrors(envelope, findings[i])])

InternalWarnings(envelope) ==
    IF Truthy(ParentId(envelope))
    THEN <<CrossReferenceWarning("unverified_reference",
             <<"Parent envelope \"", ParentId(envelope),
               "\" cannot be verified without registry">>)>>
    ELSE <<>>

validateEnvelopeInternalRefs(envelope) ==
    CrossValidationResult(InternalErrors(envelope), InternalWarnings(envelope))

----------------------------------------------------------------------------
(* validateCrossReferences *)

\* documents.envelopes || [], documents.plans || [], documents.receipts || []
EnvelopeList(docs) == ArrayField(docs, "envelopes")

PlanList(docs) == ArrayField(docs, "plans")

ReceiptList(docs) == ArrayField(docs, "receipts")

\* the projection registered for an envelope document
EnvelopeRef(envelope) ==
    [artifact_ids |->
        [i \in DOMAIN ArrayField(envelope, "artifacts") |->
            StrField(ArrayField(envelope, "artifacts")[i], "artifact_id")],
     parent_envelope_id |-> ParentId(envelope)]

\* the projection registered for a plan document
PlanRef(plan) ==
    [envelope_id |-> StrField(plan, "source_envelope_id"),
     receipt_id |-> StrField(plan, "receipt_id")]

\* the projection registered for a receipt document
ReceiptRef(receipt) ==
    [plan_id |-> StrField(receipt, "plan_id"),
     envelope_id |-> StrField(receipt, "envelope_id")]

\* "Register all envelopes"
RECURSIVE RegisterEnvelopes(_, _)
RegisterEnvelopes(reg, list) ==
    IF list = <<>> THEN reg
    ELSE RegisterEnvelopes(
            registerEnvelope(reg, StrField(Head(list), "envelope_id"),
                             EnvelopeRef(Head(list))),
            Tail(list))

\* "Register all plans"
RECURSIVE RegisterPlans(_, _)
RegisterPlans(reg, list) ==
    IF list = <<>> THEN reg
    ELSE RegisterPlans(
            registerPlan(reg, StrField(Head(list), "plan_id"), PlanRef(Head(list))),
            Tail(list))

\* "Register all receipts"
RECURSIVE RegisterReceipts(_, _)
RegisterReceipts(reg, list) ==
    IF list = <<>> THEN reg
    ELSE RegisterReceipts(
            registerReceipt(reg, StrField(Head(list), "receipt_id"),
                            ReceiptRef(Head(list))),
            Tail(list))

\* the registry after the three registration loops
RegisterAll(reg, docs) ==
    RegisterReceipts(
        RegisterPlans(RegisterEnvelopes(reg, EnvelopeList(docs)), PlanList(docs)),
        ReceiptList(docs))

\* parentId && !registry.hasEnvelope(parentId)
MissingParentErrors(reg, envelope) ==
    LET id       == StrField(envelope, "envelope_id")
        parentId == ParentId(envelope)
    IN  IF Truthy(parentId) /\ ~hasEnvelope(reg, parentId)
        THEN <<CrossReferenceError("missing_reference", "evidence-envelope", id,
                 "evidence-envelope", parentId,
                 <<"provenance.parent_envelope_id">>,
                 <<"Envelope \"", id,
                   "\" references non-existent parent envelope \"", parentId,
                   "\"">>)>>
        ELSE <<>>

\* the circular check nested in the missing-parent branch: it can never fire
\* for a parent that is registered
CircularErrorsNested(envelope) == <<>>

\* parentId === id
CircularErrors(envelope) ==
    LET id       == StrField(envelope, "envelope_id")
        parentId == ParentId(envelope)
    IN  IF parentId = id
        THEN <<CrossReferenceError("circular_reference", "evidence-envelope", id,
                 "evidence-envelope", parentId,
                 <<"provenance.parent_envelope_id">>,
                 <<"Envelope \"", id, "\" references itself as parent">>)>>
        ELSE <<>>

\* the envelope loop with evidence references resolved against the artifact
\* index of the registry
EnvelopeErrorsRegistryArtifacts(reg, envelope) ==
    MissingParentErrors(reg, envelope) \o CircularErrors(envelope)
        \o SelectSeq(validateEnvelopeInternalRefs(envelope).errors,
                     LAMBDA e : ~hasArtifact(reg, e.target_id))

\* the errors one pass of the envelope loop pushes
EnvelopeErrors(reg, envelope) ==
    MissingParentErrors(reg, envelope) \o CircularErrors(envelope)
        \o validateEnvelopeInternalRefs(envelope).errors

\* the errors one pass of the plan loop pushes
PlanErrors(reg, plan) ==
    LET id         == StrField(plan, "plan_id")
        envelopeId == StrField(plan, "source_envelope_id")
    IN  IF Truthy(envelopeId) /\ ~hasEnvelope(reg, envelopeId)
        THEN <<CrossReferenceError("missing_reference", "procedure-plan", id,
                 "evidence-envelope", envelopeId, <<"source_envelope_id">>,
                 <<"Plan \"", id, "\" references non-existent envelope \"",
                   envelopeId, "\"">>)>>
        ELSE <<>>

\* planId && !registry.hasPlan(planId)
ReceiptPlanErrors(reg, receipt) ==
    LET id     == StrField(receipt, "receipt_id")
        planId == StrField(receipt, "plan_id")
    IN  IF Truthy(planId) /\ ~hasPlan(reg, planId)
        THEN <<CrossReferenceError("missing_reference", "receipt", id,
                 "procedure-plan", planId, <<"plan_id">>,
                 <<"Receipt \"", id, "\" references non-existent plan \"",
                   planId, "\"">>)>>
        ELSE <<>>

\* envelopeId && !registry.hasEnvelope(envelopeId),
\* with envelopeId = receipt.source_envelope_id
ReceiptEnvelopeErrors(reg, receipt) ==
    LET id         == StrField(receipt, "receipt_id")
        envelopeId == StrField(receipt, "source_envelope_id")
    IN  IF Truthy(envelopeId) /\ ~hasEnvelope(reg, envelopeId)
        THEN <<CrossReferenceError("missing_reference", "receipt", id,
                 "evidence-envelope", envelopeId, <<"source_envelope_id">>,
                 <<"Receipt \"", id, "\" references non-existent envelope \"",
                   envelopeId, "\"">>)>>
        ELSE <<>>

\* the errors one pass of the receipt loop pushes
ReceiptErrors(reg, receipt) ==
    ReceiptPlanErrors(reg, receipt) \o ReceiptEnvelopeErrors(reg, receipt)

\* the three validation loops with the plan loop run first
CrossErrorsPlansFirst(reg, docs) ==
    Flatten([i \in DOMAIN PlanList(docs) |->
                PlanErrors(reg, PlanList(docs)[i])])
        \o Flatten([i \in DOMAIN EnvelopeList(docs) |->
                        EnvelopeErrors(reg, EnvelopeList(docs)[i])])
        \o Flatten([i \in DOMAIN ReceiptList(docs) |->
                        ReceiptErrors(reg, ReceiptList(docs)[i])])

\* the errors of the three validation loops, run against registry reg
CrossErrors(reg, docs) ==
    Flatten([i \in DOMAIN EnvelopeList(docs) |->
                EnvelopeErrors(reg, EnvelopeList(docs)[i])])
        \o Flatten([i \in DOMAIN PlanList(docs) |->
                        PlanErrors(reg, PlanList(docs)[i])])
        \o Flatten([i \in DOMAIN ReceiptList(docs) |->
                        ReceiptErrors(reg, ReceiptList(docs)[i])])

\* the warnings of the envelope loop
CrossWarnings(docs) ==
    Flatten([i \in DOMAIN EnvelopeList(docs) |->
                validateEnvelopeInternalRefs(EnvelopeList(docs)[i]).warnings])

\* the checks run against the registry as it was passed in
CheckedRegistryBefore(reg, docs) == reg

\* the registry the checks of validateCrossReferences read
CheckedRegistry(reg, docs) == RegisterAll(reg, docs)

\* validateCrossReferences with each envelope checked right after it is
\* registered, before the envelopes that follow it are
validateCrossReferencesInterleaved(reg, docs) ==
    LET list == EnvelopeList(docs)
        all  == RegisterAll(reg, docs)
    IN  [registry |-> all,
         result |-> CrossValidationResult(
            Flatten([i \in DOMAIN list |->
                        EnvelopeErrors(RegisterEnvelopes(reg, SubSeq(list, 1, i)),
                                       list[i])])
                \o Flatten([i \in DOMAIN PlanList(docs) |->
                                PlanErrors(all, PlanList(docs)[i])])
                \o Flatten([i \in DOMAIN ReceiptList(docs) |->
                                ReceiptErrors(all, ReceiptList(docs)[i])]),
            CrossWarnings(docs))]

\* the call: the registry it leaves and the result it returns
validateCrossReferences(reg, docs) ==
    [registry |-> RegisterAll(reg, docs),
     result |-> CrossValidationResult(CrossErrors(CheckedRegistry(reg, docs), docs),
                                      CrossWarnings(docs))]

----------------------------------------------------------------------------
(* validateDocumentRefs *)

\* case "envelope" with the unresolved parent pushed to errors, as the batch
\* validator does
DocumentRefsEnvelopeStrict(reg, document) ==
    LET internal == validateEnvelopeInternalRefs(document)
    IN  CrossValidationResult(
            internal.errors \o MissingParentErrors(reg, document),
            internal.warnings)

\* case "envelope"
DocumentRefsEnvelope(reg, document) ==
    LET internal == validateEnvelopeInternalRefs(document)
        parentId == ParentId(document)
    IN  CrossValidationResult(
            internal.errors,
            internal.warnings \o
                (IF Truthy(parentId) /\ ~hasEnvelope(reg, parentId)
                 THEN <<CrossReferenceWarning("unverified_reference",
                          <<"Parent envelope \"", parentId, "\" not in registry">>)>>
                 ELSE <<>>))

\* case "plan"
DocumentRefsPlan(reg, document) ==
    LET id         == StrField(document, "plan_id")
        envelopeId == StrField(document, "source_envelope_id")
    IN  CrossValidationResult(
            IF Truthy(envelopeId) /\ ~hasEnvelope(reg, envelopeId)
            THEN <<CrossReferenceError("missing_reference", "procedure-plan", id,
                     "evidence-envelope", envelopeId, <<"source_envelope_id">>,
                     <<"Plan references non-existent envelope \"", envelopeId,
                       "\"">>)>>
            ELSE <<>>,
            <<>>)

\* case "receipt" with both references checked, as the batch validator does
DocumentRefsReceiptBoth(reg, document) ==
    CrossValidationResult(ReceiptErrors(reg, document), <<>>)

\* case "receipt"
DocumentRefsReceipt(reg, document) ==
    LET id     == StrField(document, "receipt_id")
        planId == StrField(document, "plan_id")
    IN  CrossValidationResult(
            IF Truthy(planId) /\ ~hasPlan(reg, planId)
            THEN <<CrossReferenceError("missing_reference", "receipt", id,
                     "procedure-plan", planId, <<"plan_id">>,
                     <<"Receipt references non-existent plan \"", planId, "\"">>)>>
            ELSE <<>>,
            <<>>)

\* validateDocumentRefs that registers the document it validates
validateDocumentRefsRegistering(reg, schemaType, document) ==
    CASE schemaType = "envelope" ->
            [registry |-> registerEnvelope(reg, StrField(document, "envelope_id"),
                                           EnvelopeRef(document)),
             result |-> DocumentRefsEnvelope(reg, document)]
      [] schemaType = "plan" ->
            [registry |-> registerPlan(reg, StrField(document, "plan_id"),
                                       PlanRef(document)),
             result |-> DocumentRefsPlan(reg, document)]
      [] schemaType = "receipt" ->
            [registry |-> registerReceipt(reg, StrField(document, "receipt_id"),
                                          ReceiptRef(document)),
             result |-> DocumentRefsReceipt(reg, document)]

\* the call: the registry it leaves and the result it returns
validateDocumentRefs(reg, schemaType, document) ==
    [registry |-> reg,
     result |->
        CASE schemaType = "envelope" -> DocumentRefsEnvelope(reg, document)
          [] schemaType = "plan"     -> DocumentRefsPlan(reg, document)
          [] schemaType = "receipt"  -> DocumentRefsReceipt(reg, document)]

\* the call seen with the registry it leaves: it takes no registry
InternalCall(reg, envelope) ==
    [registry |-> reg, result |-> validateEnvelopeInternalRefs(envelope)]

----------------------------------------------------------------------------
(* the documents of a session *)

MaxEnvelopes == 2
MaxPlans == 1
MaxReceipts == 1
MaxDocs == 3

EnvIds == {"E1", "E2"}
PlanIds == {"P1"}
ReceiptIds == {"R1"}

\* an object without properties
NoFields == [x \in {} |-> x]

\* the objects that have property f with a value of vs, or lack it
Opt(f, vs) == {NoFields} \cup {[x \in {f} |-> v] : v \in vs}

SeqsUpTo(S, n) == UNION {[1..k -> S] : k \in 0..n}

Finding(id, refs) == [finding_id |-> id, evidence_refs |-> refs]

\* envelope documents: artifacts is required by the schema, findings and
\* provenance are optional
EnvelopeDocs ==
    {[envelope_id |-> id, artifacts |-> a] @@ f @@ p :
        id \in EnvIds,
        a \in {<<>>, <<[artifact_id |-> "A1"]>>},
        f \in Opt("findings", {<<Finding("F1", <<"A1">>)>>}),
        p \in Opt("provenance", {[parent_envelope_id |-> x] : x \in EnvIds})}

PlanDocs ==
    {[plan_id |-> id] @@ s :
        id \in PlanIds, s \in Opt("source_envelope_id", EnvIds)}

\* a receipt may carry its envelope reference as envelope_id (the property
\* registered) or as source_envelope_id (the property checked)
ReceiptDocs ==
    {[receipt_id |-> id] @@ p @@ e @@ s :
        id \in ReceiptIds,
        p \in Opt("plan_id", PlanIds),
        e \in Opt("envelope_id", {"E2"}),
        s \in Opt("source_envelope_id", {"E2"})}

\* a list of n documents as property f; no property for no document
OptList(f, S, n) ==
    IF n = 0 THEN {NoFields} ELSE {[x \in {f} |-> q] : q \in [1..n -> S]}

\* the document sets with ne envelopes, np plans and nr receipts
DocumentSetsOf(ne, np, nr) ==
    {e @@ p @@ r : e \in OptList("envelopes", EnvelopeDocs, ne),
                   p \in OptList("plans", PlanDocs, np),
                   r \in OptList("receipts", ReceiptDocs, nr)}

\* how many envelopes, plans and receipts a document set of at most n
\* documents may hold
DocumentCounts(n) ==
    {c \in (0..MaxEnvelopes) \X (0..MaxPlans) \X (0..MaxReceipts) :
        c[1] + c[2] + c[3] <= n}

----------------------------------------------------------------------------
(* a validation session: one registry, one document set *)

NoneRegistered == [envelope |-> {}, plan |-> {}, receipt |-> {}]

\* the registry has had nothing registered since it was created or cleared
Fresh == registered = NoneRegistered

\* the last call returned no result
NoResult == <<>>

\* a call and what the session notes of it
Call(op, arg) == [op |-> op, arg |-> arg]

SetRegistry(reg) ==
    /\ envelopes' = reg.envelopes
    /\ plans' = reg.plans
    /\ receipts' = reg.receipts
    /\ artifacts' = reg.artifacts

Ids(list, f) == {StrField(list[i], f) : i \in DOMAIN list}

Init ==
    /\ envelopes = EmptyMap
    /\ plans = EmptyMap
    /\ receipts = EmptyMap
    /\ artifacts = EmptyMap
    /\ \E c \in DocumentCounts(MaxDocs) :
            documents \in DocumentSetsOf(c[1], c[2], c[3])
    /\ lastOp = Call("new", <<>>)
    /\ result = NoResult
    /\ registered = NoneRegistered
    /\ firstFresh = <<>>

\* validateCrossReferences(registry, documents); the session notes whether the
\* registry was fresh and whether a run on a fresh registry came before
ValidateCrossReferences ==
    LET call == validateCrossReferences(Registry, documents)
    IN  /\ SetRegistry(call.registry)
        /\ result' = <<call.result>>
        /\ lastOp' = Call("validateCrossReferences", <<Fresh, firstFresh # <<>>>>)
        /\ registered' =
            [envelope |-> registered.envelope
                            \cup Ids(EnvelopeList(documents), "envelope_id"),
             plan |-> registered.plan \cup Ids(PlanList(documents), "plan_id"),
             receipt |-> registered.receipt
                            \cup Ids(ReceiptList(documents), "receipt_id")]
        /\ firstFresh' =
            IF Fresh /\ firstFresh = <<>> THEN <<call.result>> ELSE firstFresh
        /\ UNCHANGED documents

\* registry.clear(); the session notes the ids the ended pass had registered
\* and the artifact ids the registry knew
Clear ==
    /\ SetRegistry(clear(Registry))
    /\ lastOp' = Call("clear", <<registered, DOMAIN artifacts>>)
    /\ registered' = NoneRegistered
    /\ result' = NoResult
    /\ UNCHANGED <<documents, firstFresh>>

\* validateDocumentRefs(registry, schemaType, document), document the i-th of
\* its kind in the session's document set
ValidateDocumentRefs(schemaType, list, i) ==
    LET call == validateDocumentRefs(Registry, schemaType, list[i])
    IN  /\ SetRegistry(call.registry)
        /\ result' = <<call.result>>
        /\ lastOp' = Call("validateDocumentRefs", <<schemaType, i>>)
        /\ UNCHANGED <<documents, registered, firstFresh>>

\* validateEnvelopeInternalRefs(envelope), envelope the i-th of the session
ValidateEnvelopeInternalRefs(i) ==
    LET call == InternalCall(Registry, EnvelopeList(documents)[i])
    IN  /\ SetRegistry(call.registry)
        /\ result' = <<call.result>>
        /\ lastOp' = Call("validateEnvelopeInternalRefs", <<i>>)
        /\ UNCHANGED <<documents, registered, firstFresh>>

\* a batch session validates its document set, and clears the registry to
\* validate it again
Next ==
    \/ ValidateCrossReferences
    \/ Clear

Spec == Init /\ [][Next]_vars

----------------------------------------------------------------------------
(* a long-lived registry: callers register projections of their own,       *)
(* clear, and validate one document, in a batch or incrementally           *)

\* the projections callers register
EnvelopeRefs ==
    {[artifact_ids |-> a, parent_envelope_id |-> Undefined] :
        a \in {<<>>, <<"A1">>, <<"A2">>}}

PlanRefs == {[envelope_id |-> Undefined, receipt_id |-> Undefined]}

ReceiptRefs == {[plan_id |-> Undefined, envelope_id |-> Undefined]}

\* the document sets of these sessions: one document
SingleDocumentCounts == {<<1, 0, 0>>, <<0, 1, 0>>, <<0, 0, 1>>}

\* envelopes that leave optional properties out: no artifacts, findings
\* without evidence_refs, provenance without parent_envelope_id
SparseEnvelopeDocs ==
    {[envelope_id |-> "E1"] @@ a @@ f @@ p :
        a \in Opt("artifacts", {<<>>}),
        f \in Opt("findings", {<<>>, <<[finding_id |-> "F1"]>>}),
        p \in Opt("provenance", {NoFields})}

\* two envelopes, in either order: E1 with a finding that references A1, E2
\* without findings; each may declare A1
CrossEnvelopeSets ==
    LET referencing == {e \in EnvelopeDocs :
                            /\ e.envelope_id = "E1"
                            /\ "findings" \in DOMAIN e
                            /\ "provenance" \notin DOMAIN e}
        other       == {e \in EnvelopeDocs :
                            /\ e.envelope_id = "E2"
                            /\ "findings" \notin DOMAIN e
                            /\ "provenance" \notin DOMAIN e}
    IN  {[envelopes |-> l] :
            l \in UNION {{<<a, b>>, <<b, a>>} : a \in referencing, b \in other}}

\* one sparse envelope, or no list at all
SparseDocumentSets ==
    {NoFields} \cup {[envelopes |-> <<e>>] : e \in SparseEnvelopeDocs}

InitRegistry ==
    /\ envelopes = EmptyMap
    /\ plans = EmptyMap
    /\ receipts = EmptyMap
    /\ artifacts = EmptyMap
    /\ \/ \E c \in SingleDocumentCounts :
                documents \in DocumentSetsOf(c[1], c[2], c[3])
       \/ documents \in SparseDocumentSets
       \/ documents \in CrossEnvelopeSets
    /\ lastOp = Call("new", <<>>)
    /\ result = NoResult
    /\ registered = NoneRegistered
    /\ firstFresh = <<>>

\* registry.registerEnvelope(id, envelope)
RegisterEnvelope(id, envelope) ==
    /\ SetRegistry(registerEnvelope(Registry, id, envelope))
    /\ lastOp' = Call("registerEnvelope", <<id, envelope>>)
    /\ registered' = [registered EXCEPT !.envelope = @ \cup {id}]
    /\ result' = NoResult
    /\ UNCHANGED <<documents, firstFresh>>

\* registry.registerPlan(id, plan)
RegisterPlan(id, plan) ==
    /\ SetRegistry(registerPlan(Registry, id, plan))
    /\ lastOp' = Call("registerPlan", <<id, plan>>)
    /\ registered' = [registered EXCEPT !.plan = @ \cup {id}]
    /\ result' = NoResult
    /\ UNCHANGED <<documents, firstFresh>>

\* registry.registerReceipt(id, receipt)
RegisterReceipt(id, receipt) ==
    /\ SetRegistry(registerReceipt(Registry, id, receipt))
    /\ lastOp' = Call("registerReceipt", <<id, receipt>>)
    /\ registered' = [registered EXCEPT !.receipt = @ \cup {id}]
    /\ result' = NoResult
    /\ UNCHANGED <<documents, firstFresh>>

NextRegistry ==
    \/ \E id \in EnvIds, e \in EnvelopeRefs : RegisterEnvelope(id, e)
    \/ \E id \in PlanIds, p \in PlanRefs : RegisterPlan(id, p)
    \/ \E id \in ReceiptIds, r \in ReceiptRefs : RegisterReceipt(id, r)
    \/ Clear
    \/ ValidateCrossReferences
    \/ \E i \in DOMAIN EnvelopeList(documents) :
            ValidateDocumentRefs("envelope", EnvelopeList(documents), i)
    \/ \E i \in DOMAIN PlanList(documents) :
            ValidateDocumentRefs("plan", PlanList(documents), i)
    \/ \E i \in DOMAIN ReceiptList(documents) :
            ValidateDocumentRefs("receipt", ReceiptList(documents), i)
    \/ \E i \in DOMAIN EnvelopeList(documents) : ValidateEnvelopeInternalRefs(i)

SpecRegistry == InitRegistry /\ [][NextRegistry]_vars

----------------------------------------------------------------------------
(* validateEnvelopeInternalRefs as a function of one envelope *)

MaxArtifacts == 1
MaxFindings == 2
MaxRefs == 2

\* findings are named by their position
FindingIds == <<"F1", "F2", "F3", "F4">>

\* artifact objects: an id, the empty id, or no artifact_id at all
ArtifactObjects == Opt("artifact_id", {"A1", ""})

\* a finding's evidence_refs: absent, or up to MaxRefs references
EvidenceRefs == Opt("evidence_refs", SeqsUpTo({"A1", "A2"}, MaxRefs))

\* the lists of at most n findings
FindingLists(n) ==
    {[i \in DOMAIN l |-> [finding_id |-> FindingIds[i]] @@ l[i]] :
        l \in SeqsUpTo(EvidenceRefs, n)}

\* envelopes of at most na artifacts and nf findings
InternalEnvelopeDocs(na, nf) ==
    {[envelope_id |-> "E1"] @@ a @@ f @@ p :
        a \in Opt("artifacts", SeqsUpTo(ArtifactObjects, na)),
        f \in Opt("findings", FindingLists(nf)),
        p \in Opt("provenance",
                  {NoFields, [parent_envelope_id |-> "E2"],
                   [parent_envelope_id |-> ""]})}

InitInternal ==
    /\ envelopes = EmptyMap
    /\ plans = EmptyMap
    /\ receipts = EmptyMap
    /\ artifacts = EmptyMap
    /\ documents \in {[envelopes |-> <<e>>] : e \in InternalEnvelopeDocs(MaxArtifacts, MaxFindings)}
    /\ lastOp = Call("new", <<>>)
    /\ result = NoResult
    /\ registered = NoneRegistered
    /\ firstFresh = <<>>

NextInternal ==
    \E i \in DOMAIN EnvelopeList(documents) : ValidateEnvelopeInternalRefs(i)

SpecInternal == InitInternal /\ [][NextInternal]_vars

----------------------------------------------------------------------------
(* properties *)

\* the result the last validator call returned
Returned == result[1]

BatchDone == lastOp.op = "validateCrossReferences"

\* C1: registering envelope id E again with another artifact-id list leaves
\* hasArtifact true only for the artifacts of the new list: an artifact of the
\* old list that the new list and every other registered envelope lack is no
\* longer known
C1_ReRegistrationDropsOldArtifacts ==
    [][\A id \in EnvIds :
        (/\ lastOp'.op = "registerEnvelope"
         /\ lastOp'.arg[1] = id
         /\ hasEnvelope(Registry, id))
        => \A a \in Range(envelopes[id].artifact_ids)
                        \ Range(lastOp'.arg[2].artifact_ids) :
              (\A e \in (DOMAIN envelopes') \ {id} :
                    a \notin Range(envelopes'[e].artifact_ids))
              => ~hasArtifact(Registry', a)]_vars

\* the errors of the result that name a receipt as their source, reduced to
\* the fields C2 speaks of
ReceiptErrorsReturned ==
    LET es == SelectSeq(Returned.errors, LAMBDA e : e.source_schema = "receipt")
    IN  [i \in DOMAIN es |->
            <<es[i].type, es[i].source_id, es[i].target_schema, es[i].target_id>>]

\* what C2 expects of one receipt: its plan reference and its declared
\* envelope reference (envelope_id), each checked against the registry
ReceiptErrorsExpected(receipt) ==
    LET id         == StrField(receipt, "receipt_id")
        planId     == StrField(receipt, "plan_id")
        envelopeId == StrField(receipt, "envelope_id")
    IN  (IF Truthy(planId) /\ ~hasPlan(Registry, planId)
         THEN <<<<"missing_reference", id, "procedure-plan", planId>>>>
         ELSE <<>>)
        \o (IF Truthy(envelopeId) /\ ~hasEnvelope(Registry, envelopeId)
            THEN <<<<"missing_reference", id, "evidence-envelope", envelopeId>>>>
            ELSE <<>>)

\* C2: in a batch the plan reference and the envelope reference (envelope_id)
\* of every receipt are checked independently: one missing_reference per
\* unresolved reference, none for a resolved one
C2_ReceiptReferencesIndependent ==
    BatchDone =>
        ReceiptErrorsReturned
            = Flatten([i \in DOMAIN ReceiptList(documents) |->
                        ReceiptErrorsExpected(ReceiptList(documents)[i])])

\* the artifact ids an envelope declares (empty and absent ids dropped)
DeclaredArtifacts(envelope) ==
    {a.artifact_id : a \in {x \in Range(ArrayField(envelope, "artifacts")) :
                                "artifact_id" \in DOMAIN x}} \ {""}

\* the evidence references of an envelope, one per finding and position
EvidenceRefOccurrences(envelope) ==
    LET fs == ArrayField(envelope, "findings")
    IN  {<<i, j>> \in (DOMAIN fs) \X (1..MaxRefs + 1) :
            j \in DOMAIN ArrayField(fs[i], "evidence_refs")}

\* the envelope the last validateEnvelopeInternalRefs call was given
InternalArg == EnvelopeList(documents)[lastOp.arg[1]]

\* C3: validateEnvelopeInternalRefs reports one missing_reference error per
\* evidence reference that is not a declared artifact of the envelope, naming
\* the envelope as source and the reference as target, and nothing else
C3_OneErrorPerDanglingRef ==
    lastOp.op = "validateEnvelopeInternalRefs" =>
        LET env  == InternalArg
            fs   == ArrayField(env, "findings")
            occ  == EvidenceRefOccurrences(env)
            Ref(o) == fs[o[1]].evidence_refs[o[2]]
        IN  /\ \A e \in Range(Returned.errors) :
                /\ e.type = "missing_reference"
                /\ e.source_schema = "evidence-envelope"
                /\ e.source_id = env.envelope_id
                /\ e.target_schema = "artifact"
            /\ \A i \in DOMAIN fs, r \in {"A1", "A2"} :
                Cardinality({k \in DOMAIN Returned.errors :
                                /\ Returned.errors[k].target_id = r
                                /\ Returned.errors[k].field[2] = fs[i].finding_id})
                  = IF r \in DeclaredArtifacts(env) THEN 0
                    ELSE Cardinality({o \in occ : o[1] = i /\ Ref(o) = r})
            /\ Len(Returned.errors)
                  = Cardinality({o \in occ : Ref(o) \notin DeclaredArtifacts(env)})
            /\ Returned.valid = (Returned.errors = <<>>)

\* an envelope with a declared artifact, a finding that references it and the
\* same undeclared artifact twice, and the errors returned for it
C3_Witness ==
    /\ lastOp.op = "validateEnvelopeInternalRefs"
    /\ DeclaredArtifacts(InternalArg) = {"A1"}
    /\ \E i \in DOMAIN ArrayField(InternalArg, "findings") :
            ArrayField(InternalArg.findings[i], "evidence_refs") = <<"A2", "A2">>
    /\ \E i \in DOMAIN ArrayField(InternalArg, "findings") :
            ArrayField(InternalArg.findings[i], "evidence_refs") = <<"A1", "A2">>
    /\ Len(Returned.errors) = 3

\* the parent links of a batch: <<id, parent>> for every envelope that names one
ParentLinks(docs) ==
    {<<StrField(e, "envelope_id"), ParentId(e)>> :
        e \in {x \in Range(EnvelopeList(docs)) : Truthy(ParentId(x))}}

RECURSIVE TransitiveClosure(_)
TransitiveClosure(R) ==
    LET R2 == R \cup {<<a[1], b[2]>> : a, b \in R}
        S  == {p \in R2 : p \in R \/ \E a, b \in R :
                    a[2] = b[1] /\ p = <<a[1], b[2]>>}
    IN  IF S = R THEN R ELSE TransitiveClosure(S)

\* the parent links of the batch form a cycle, of any length
HasParentCycle(docs) ==
    \E p \in TransitiveClosure(ParentLinks(docs)) : p[1] = p[2]

\* the envelopes of the batch that name themselves as parent
SelfParented(docs) ==
    {i \in DOMAIN EnvelopeList(docs) :
        ParentId(EnvelopeList(docs)[i]) = StrField(EnvelopeList(docs)[i], "envelope_id")}

CircularReturned ==
    {k \in DOMAIN Returned.errors : Returned.errors[k].type = "circular_reference"}

\* C4 as claimed: a batch whose parent links form a cycle of any length is
\* invalid and has a circular_reference error
C4_AnyCycleDetected ==
    BatchDone =>
        (HasParentCycle(documents)
            => ~Returned.valid /\ CircularReturned # {})

\* C4 as amended: a batch has a circular_reference error exactly when one of
\* its envelopes names itself as parent, one error per such envelope; a valid
\* batch has no self-parented envelope
C4_SelfReferenceDetected ==
    BatchDone =>
        /\ Cardinality(CircularReturned) = Cardinality(SelfParented(documents))
        /\ \A k \in CircularReturned :
                Returned.errors[k].source_id = Returned.errors[k].target_id
        /\ (Returned.valid => SelfParented(documents) = {})

\* a batch of two envelopes, the second its own parent, found invalid
C4_Witness ==
    /\ BatchDone
    /\ Len(EnvelopeList(documents)) = 2
    /\ SelfParented(documents) = {2}
    /\ ~Returned.valid
    /\ CircularReturned # {}

\* C5: every envelope of a batch that names itself as parent makes the batch
\* invalid with one circular_reference error of source_id = target_id = its id
\* and field provenance.parent_envelope_id, and no missing_reference error for
\* that parent link
C5_SelfParentOneCircularError ==
    BatchDone =>
        \A i \in SelfParented(documents) :
            LET list == EnvelopeList(documents)
                id   == list[i].envelope_id
                errs == Returned.errors
            IN  /\ ~Returned.valid
                /\ Cardinality({k \in CircularReturned : errs[k].source_id = id})
                     = Cardinality({j \in SelfParented(documents) :
                                        list[j].envelope_id = id})
                /\ \A k \in CircularReturned :
                        errs[k].source_id = id =>
                            /\ errs[k].target_id = id
                            /\ errs[k].source_schema = "evidence-envelope"
                            /\ errs[k].target_schema = "evidence-envelope"
                            /\ errs[k].field = <<"provenance.parent_envelope_id">>
                /\ ~\E k \in DOMAIN errs :
                        /\ errs[k].type = "missing_reference"
                        /\ errs[k].source_schema = "evidence-envelope"
                        /\ errs[k].target_schema = "evidence-envelope"
                        /\ errs[k].source_id = id
                        /\ errs[k].target_id = id

\* scenario 4: a batch on a fresh registry whose one envelope is its own
\* parent returns the circular_reference error alone
C5_Witness ==
    /\ BatchDone
    /\ lastOp.arg[1]
    /\ Len(EnvelopeList(documents)) = 1
    /\ SelfParented(documents) = {1}
    /\ Len(Returned.errors) = 1
    /\ Returned.errors[1].type = "circular_reference"

\* every identifier the model uses
AllIds == EnvIds \cup PlanIds \cup ReceiptIds \cup {"A1", "A2"}

\* C6: after clear() every has* query is false, for the ids registered before
\* and for every other id, and getEnvelope finds nothing
C6_ClearEmptiesRegistry ==
    lastOp.op = "clear" =>
        /\ \A id \in AllIds \cup lastOp.arg[1].envelope \cup lastOp.arg[1].plan
                    \cup lastOp.arg[1].receipt \cup lastOp.arg[2] :
                /\ ~hasEnvelope(Registry, id)
                /\ ~hasPlan(Registry, id)
                /\ ~hasReceipt(Registry, id)
                /\ ~hasArtifact(Registry, id)
                /\ getEnvelope(Registry, id) = <<>>
        /\ Registry = NewRegistry

\* clear() of a registry that held envelopes, plans, receipts and artifacts
C6_Witness ==
    /\ lastOp.op = "clear"
    /\ lastOp.arg[1].envelope # {}
    /\ lastOp.arg[1].plan # {}
    /\ lastOp.arg[1].receipt # {}
    /\ lastOp.arg[2] # {}

\* C7: every batch run that starts on a fresh registry returns what the first
\* such run on the same documents returned: same errors, warnings and flag
C7_FreshRunsAgree ==
    (BatchDone /\ lastOp.arg[1]) => <<Returned>> = firstFresh

\* a second run on a fresh registry, with errors to compare
C7_Witness ==
    /\ BatchDone
    /\ lastOp.arg = <<TRUE, TRUE>>
    /\ Returned.errors # <<>>

\* the lists of a document set permuted, each on its own
PermutationsOf(list) ==
    {[i \in DOMAIN list |-> list[p[i]]] : p \in Permutations(DOMAIN list)}

Reordered(docs, f) ==
    IF f \in DOMAIN docs
    THEN {[x \in {f} |-> q] : q \in PermutationsOf(docs[f])}
    ELSE {NoFields}

Reorderings(docs) ==
    {e @@ p @@ r : e \in Reordered(docs, "envelopes"),
                   p \in Reordered(docs, "plans"),
                   r \in Reordered(docs, "receipts")}

MissingReferences(errors) ==
    SelectSeq(errors, LAMBDA e : e.type = "missing_reference")

SameBag(a, b) ==
    \A x \in Range(a) \cup Range(b) :
        Cardinality({i \in DOMAIN a : a[i] = x})
            = Cardinality({i \in DOMAIN b : b[i] = x})

\* C8: no missing_reference error of a batch targets a document of the batch,
\* wherever it stands in its list, and a run on a fresh registry produces the
\* same missing_reference errors for every reordering of the lists
C8_RegistrationBeforeChecks ==
    BatchDone =>
        /\ \A e \in Range(MissingReferences(Returned.errors)) :
                /\ e.target_schema = "evidence-envelope"
                    => e.target_id \notin Ids(EnvelopeList(documents), "envelope_id")
                /\ e.target_schema = "procedure-plan"
                    => e.target_id \notin Ids(PlanList(documents), "plan_id")
        /\ lastOp.arg[1] =>
                \A d \in Reorderings(documents) :
                    SameBag(MissingReferences(
                                validateCrossReferences(NewRegistry, d).result.errors),
                            MissingReferences(Returned.errors))

\* a batch whose first envelope names the second, which follows it, as parent,
\* with a missing reference elsewhere
C8_Witness ==
    /\ BatchDone
    /\ lastOp.arg[1]
    /\ Len(EnvelopeList(documents)) = 2
    /\ ParentId(EnvelopeList(documents)[1]) = EnvelopeList(documents)[2].envelope_id
    /\ EnvelopeList(documents)[1].envelope_id # EnvelopeList(documents)[2].envelope_id
    /\ Len(MissingReferences(Returned.errors)) = 1

\* C9: an id is known to the registry only if a document of its kind was
\* registered under it since the registry was last cleared
C9_KnownOnlyByRegistration ==
    /\ DOMAIN envelopes \subseteq registered.envelope
    /\ DOMAIN plans \subseteq registered.plan
    /\ DOMAIN receipts \subseteq registered.receipt

\* a validated document references an envelope id that is still unknown, in a
\* registry that holds other envelopes
C9_Witness ==
    /\ lastOp.op \in {"validateCrossReferences", "validateDocumentRefs"}
    /\ DOMAIN envelopes # {}
    /\ \E e \in Range(Returned.errors) :
            /\ e.type = "missing_reference"
            /\ e.target_schema = "evidence-envelope"
            /\ ~hasEnvelope(Registry, e.target_id)

\* C10: validateDocumentRefs and validateEnvelopeInternalRefs leave the four
\* maps of the registry as they were
C10_ValidatorsRegisterNothing ==
    [][lastOp'.op \in {"validateDocumentRefs", "validateEnvelopeInternalRefs"}
            => Registry' = Registry]_vars

\* an incremental validation against a populated registry that reports a
\* missing reference
C10_Witness ==
    /\ lastOp.op = "validateDocumentRefs"
    /\ Registry # NewRegistry
    /\ Returned.errors # <<>>

\* the last call was validateDocumentRefs(registry, kind, document)
IncrementalDone(kind) ==
    lastOp.op = "validateDocumentRefs" /\ lastOp.arg[1] = kind

\* the document the last validateDocumentRefs call was given
IncrementalArg ==
    CASE lastOp.arg[1] = "envelope" -> EnvelopeList(documents)[lastOp.arg[2]]
      [] lastOp.arg[1] = "plan"     -> PlanList(documents)[lastOp.arg[2]]
      [] lastOp.arg[1] = "receipt"  -> ReceiptList(documents)[lastOp.arg[2]]

\* a declared parent the registry does not know
UnresolvedParent(envelope) ==
    Truthy(ParentId(envelope)) /\ ~hasEnvelope(Registry, ParentId(envelope))

\* C11: validateDocumentRefs of an envelope returns the errors of the internal
\* check and its valid flag, reports an unresolved parent as an
\* unverified_reference warning, never as an error; validateCrossReferences
\* reports an unresolved parent as a missing_reference error
C11_IncrementalParentIsWarning ==
    /\ IncrementalDone("envelope") =>
            LET internal == validateEnvelopeInternalRefs(IncrementalArg)
                parentId == ParentId(IncrementalArg)
            IN  /\ Returned.errors = internal.errors
                /\ Returned.valid = internal.valid
                /\ \A e \in Range(Returned.errors) :
                        e.target_schema # "evidence-envelope"
                /\ UnresolvedParent(IncrementalArg) =>
                        \E w \in Range(Returned.warnings) :
                            /\ w.type = "unverified_reference"
                            /\ w.message = <<"Parent envelope \"", parentId,
                                             "\" not in registry">>
    /\ BatchDone =>
            \A envelope \in Range(EnvelopeList(documents)) :
                UnresolvedParent(envelope) =>
                    /\ ~Returned.valid
                    /\ \E e \in Range(Returned.errors) :
                            /\ e.type = "missing_reference"
                            /\ e.source_schema = "evidence-envelope"
                            /\ e.source_id = StrField(envelope, "envelope_id")
                            /\ e.target_schema = "evidence-envelope"
                            /\ e.target_id = ParentId(envelope)
                            /\ e.field = <<"provenance.parent_envelope_id">>

\* an envelope with an unresolved parent and nothing else wrong, validated
\* against a registry that holds other envelopes: valid, with warnings
C11_Witness ==
    /\ IncrementalDone("envelope")
    /\ UnresolvedParent(IncrementalArg)
    /\ DOMAIN envelopes # {}
    /\ Returned.valid
    /\ Len(Returned.warnings) = 2

\* C12: validateDocumentRefs of a receipt returns one missing_reference error
\* (receipt -> procedure-plan, field plan_id) when the receipt declares a
\* plan_id that is not a registered plan, and otherwise no error; it never
\* returns a warning, and nothing for the receipt's envelope reference
C12_IncrementalReceiptChecksPlanOnly ==
    IncrementalDone("receipt") =>
        LET planId == StrField(IncrementalArg, "plan_id")
            errs   == Returned.errors
        IN  /\ Returned.warnings = <<>>
            /\ Len(errs) =
                 (IF "plan_id" \in DOMAIN IncrementalArg /\ ~hasPlan(Registry, planId)
                  THEN 1 ELSE 0)
            /\ \A e \in Range(errs) :
                    /\ e.type = "missing_reference"
                    /\ e.source_schema = "receipt"
                    /\ e.source_id = StrField(IncrementalArg, "receipt_id")
                    /\ e.target_schema = "procedure-plan"
                    /\ e.target_id = planId
                    /\ e.field = <<"plan_id">>
            /\ Returned.valid = (errs = <<>>)

\* a receipt whose plan is registered and whose envelope, named by both
\* envelope properties, is not: valid, nothing reported
C12_Witness ==
    /\ IncrementalDone("receipt")
    /\ hasPlan(Registry, StrField(IncrementalArg, "plan_id"))
    /\ StrField(IncrementalArg, "envelope_id") = "E2"
    /\ StrField(IncrementalArg, "source_envelope_id") = "E2"
    /\ ~hasEnvelope(Registry, "E2")
    /\ DOMAIN envelopes # {}
    /\ Returned.valid
    /\ Returned.errors = <<>>

\* the phase an error belongs to, by the kind of its source
Phase(e) ==
    CASE e.source_schema = "evidence-envelope" -> 1
      [] e.source_schema = "procedure-plan"    -> 2
      [] e.source_schema = "receipt"           -> 3

\* the place of an error among the errors of its document: for an envelope
\* missing parent, circular, finding errors; for a receipt plan, envelope
Rank(e) ==
    CASE e.type = "circular_reference"        -> 2
      [] e.target_schema = "artifact"         -> 3
      [] e.source_schema = "receipt"
            /\ e.target_schema = "evidence-envelope" -> 2
      [] OTHER                                -> 1

\* the evidence references an envelope's findings declare
DeclaredRefs(envelope) ==
    UNION {Range(ArrayField(f, "evidence_refs")) :
            f \in Range(ArrayField(envelope, "findings"))}

\* error e is about a reference document doc declares
ErrorOf(doc, e) ==
    CASE Phase(e) = 1 ->
            /\ e.source_id = StrField(doc, "envelope_id")
            /\ \/ Rank(e) \in {1, 2} /\ e.target_id = ParentId(doc)
               \/ Rank(e) = 3 /\ e.target_id \in DeclaredRefs(doc)
      [] Phase(e) = 2 ->
            /\ e.source_id = StrField(doc, "plan_id")
            /\ e.target_id = StrField(doc, "source_envelope_id")
      [] Phase(e) = 3 ->
            /\ e.source_id = StrField(doc, "receipt_id")
            /\ \/ Rank(e) = 1 /\ e.target_id = StrField(doc, "plan_id")
               \/ Rank(e) = 2 /\ e.target_id \in
                     {StrField(doc, "envelope_id"),
                      StrField(doc, "source_envelope_id")}

\* the errors of one phase follow the order of the input list, and the
\* errors of one document the order of its checks
InListOrder(errs, phase, list) ==
    LET idx == {k \in DOMAIN errs : Phase(errs[k]) = phase}
    IN  \E pos \in [idx -> DOMAIN list] :
            /\ \A k \in idx : ErrorOf(list[pos[k]], errs[k])
            /\ \A k, l \in idx :
                    k < l => /\ pos[k] <= pos[l]
                             /\ pos[k] = pos[l] => Rank(errs[k]) <= Rank(errs[l])

ReferenceFree(kind, doc) ==
    CASE kind = "envelope" ->
            /\ ParentId(doc) = Undefined
            /\ DeclaredRefs(doc) = {}
      [] kind = "plan" ->
            StrField(doc, "source_envelope_id") = Undefined
      [] kind = "receipt" ->
            /\ StrField(doc, "plan_id") = Undefined
            /\ StrField(doc, "envelope_id") = Undefined
            /\ StrField(doc, "source_envelope_id") = Undefined

NothingReported ==
    /\ Returned.valid
    /\ Returned.errors = <<>>
    /\ Returned.warnings = <<>>

\* C14: a document that declares no reference gets no error and no warning
\* from validateEnvelopeInternalRefs, validateDocumentRefs and
\* validateCrossReferences, whatever the registry holds; absent lists are
\* empty lists
C14_AbsentReferencesNoDefect ==
    /\ (lastOp.op = "validateEnvelopeInternalRefs"
            /\ ReferenceFree("envelope", InternalArg)) => NothingReported
    /\ (lastOp.op = "validateDocumentRefs"
            /\ ReferenceFree(lastOp.arg[1], IncrementalArg)) => NothingReported
    /\ (/\ BatchDone
        /\ \A e \in Range(EnvelopeList(documents)) : ReferenceFree("envelope", e)
        /\ \A p \in Range(PlanList(documents)) : ReferenceFree("plan", p)
        /\ \A r \in Range(ReceiptList(documents)) : ReferenceFree("receipt", r))
        => NothingReported

\* a batch of one envelope without artifacts and provenance, its finding
\* without evidence_refs, on a registry that holds a plan: nothing reported
C14_Witness ==
    /\ BatchDone
    /\ documents = [envelopes |->
                      <<[envelope_id |-> "E1",
                         findings |-> <<[finding_id |-> "F1"]>>]>>]
    /\ hasPlan(Registry, "P1")
    /\ NothingReported

\* the envelopes the last call validated
ValidatedEnvelopes ==
    CASE BatchDone -> Range(EnvelopeList(documents))
      [] IncrementalDone("envelope") -> {IncrementalArg}
      [] lastOp.op = "validateEnvelopeInternalRefs" -> {InternalArg}
      [] OTHER -> {}

\* C15: an evidence reference resolves only against the artifacts of the
\* finding's own envelope: in batch, incremental and internal validation a
\* reference to an artifact id the envelope does not declare yields a
\* missing_reference error and an invalid result, also when another envelope
\* of the batch or of the registry declares the id and hasArtifact is true
C15_NoCrossEnvelopeArtifactRefs ==
    \A envelope \in ValidatedEnvelopes :
        \A ref \in DeclaredRefs(envelope) \ DeclaredArtifacts(envelope) :
            /\ ~Returned.valid
            /\ \E e \in Range(Returned.errors) :
                    /\ e.type = "missing_reference"
                    /\ e.source_schema = "evidence-envelope"
                    /\ e.source_id = StrField(envelope, "envelope_id")
                    /\ e.target_schema = "artifact"
                    /\ e.target_id = ref

\* a batch in which E1's finding references A1, declared by E2 of the same
\* batch and not by E1: A1 is in the artifact index and the batch is invalid
C15_Witness ==
    /\ BatchDone
    /\ Len(EnvelopeList(documents)) = 2
    /\ \E i, j \in DOMAIN EnvelopeList(documents) :
            LET e1 == EnvelopeList(documents)[i]
                e2 == EnvelopeList(documents)[j]
            IN  /\ "A1" \in DeclaredRefs(e1) \ DeclaredArtifacts(e1)
                /\ "A1" \in DeclaredArtifacts(e2)
                /\ e1.envelope_id # e2.envelope_id
    /\ hasArtifact(Registry, "A1")
    /\ artifacts["A1"].envelope_id = "E2"
    /\ ~Returned.valid

\* the artifact ids whose index entry the step created or changed
ArtifactsWritten ==
    {a \in DOMAIN artifacts' :
        a \notin DOMAIN artifacts \/ artifacts'[a] # artifacts[a]}

\* the step registered an envelope under id that declares artifact a: by a
\* registerEnvelope call or by phase 1 of a batch
RegisteredWith(id, a) ==
    \/ /\ lastOp'.op = "registerEnvelope"
       /\ lastOp'.arg[1] = id
       /\ a \in Range(lastOp'.arg[2].artifact_ids)
    \/ /\ lastOp'.op = "validateCrossReferences"
       /\ \E e \in Range(EnvelopeList(documents)) :
            /\ StrField(e, "envelope_id") = id
            /\ a \in Range(EnvelopeRef(e).artifact_ids)

\* C16: after every step each entry of the artifact index names an envelope
\* id present in the envelope map; an entry is created or changed only by a
\* step that registers an envelope declaring it, under that envelope's id;
\* registerPlan and registerReceipt leave the envelope and artifact maps as
\* they were
C16_ArtifactIndexConsistent ==
    [][/\ \A a \in DOMAIN artifacts' :
            hasEnvelope(Registry', artifacts'[a].envelope_id)
       /\ \A a \in ArtifactsWritten :
            RegisteredWith(artifacts'[a].envelope_id, a)
       /\ lastOp'.op \in {"registerPlan", "registerReceipt"} =>
            /\ envelopes' = envelopes
            /\ artifacts' = artifacts]_vars

\* registerReceipt on a registry that holds two artifacts of two envelopes
\* and a plan
C16_Witness ==
    /\ lastOp.op = "registerReceipt"
    /\ DOMAIN artifacts = {"A1", "A2"}
    /\ {artifacts[a].envelope_id : a \in DOMAIN artifacts} = {"E1", "E2"}
    /\ hasPlan(Registry, "P1")

====
